---- MODULE Spec2Model ----
(***************************************************************************)
(* Model of find_duplicates.py: group_by_size walks a directory tree and   *)
(* buckets the paths by byte size; hash_groups hashes every candidate in   *)
(* a thread pool and buckets the paths by digest.                          *)
(*                                                                         *)
(* A path is the index of an entry in the walk's discovery order.  A dict  *)
(* is a sequence of [k, v] records in key insertion order (Python dicts    *)
(* keep insertion order), a list is a sequence.                            *)
(***************************************************************************)
EXTENDS Integers, Sequences, FiniteSets, TLC

\* ------------------------------------------------------------- bounds
\* Largest number of non-directory entries os.walk finds under the root.
NFiles == 4
\* Worker threads of the pool (os.cpu_count() on the host).
PoolSize == 2
\* Bytes one f.read returns at most (block_size, scaled down).
BlockSize == 1

Bytes == {0, 1}
\* File contents: at most two bytes, all of one value.
Contents == {[i \in 1..n |-> b] : n \in 0..2, b \in Bytes}

\* A directory entry os.walk lists in `files`:
\*   "file"     a regular file;
\*   "symlink"  a symlink to a regular file (content is the target's; the
\*              code never looks at the kind, so one target stands for all);
\*   "special"  a FIFO, socket or device: st_size 0, reads as empty;
\*   "nostat"   an entry whose os.path.getsize raises: a dangling symlink,
\*              a file removed since the listing, a denied stat.
Entries ==
    [kind : {"file"}, content : Contents]
        \cup {[kind |-> "symlink", content |-> <<0>>],
              [kind |-> "special", content |-> <<>>],
              [kind |-> "nostat", content |-> <<>>]}

Trees == UNION {[1..n -> Entries] : n \in 0..NFiles}

\* ------------------------------------------------------------- values
\* Python's None in the digest position of a job result.
None == <<-1>>

\* Python truthiness of a digest-or-None value (`if filehash:`).
TruthyAlways(h) == TRUE
Truthy(h) == h # None /\ h # <<>>

\* hashlib.md5(): the state is the message absorbed so far (collision-free).
Md5Init == <<>>
Md5UpdateSkipped(acc, chunk) == acc
Md5Update(acc, chunk) == acc \o chunk
\* hexdigest(): a non-empty string that determines the message.
HexDigestEmptyAbsent(acc) == IF acc = <<>> THEN <<>> ELSE <<Len(acc)>> \o acc
HexDigest(acc) == <<Len(acc)>> \o acc

\* ------------------------------------------------------------- dicts
DictHas(d, k) == \E i \in 1..Len(d) : d[i].k = k

\* defaultdict(list): d[k].append(x)
DictAppendOverwrite(d, k, x) ==
    IF DictHas(d, k)
    THEN [i \in 1..Len(d) |-> IF d[i].k = k THEN [k |-> k, v |-> <<x>>] ELSE d[i]]
    ELSE Append(d, [k |-> k, v |-> <<x>>])
DictAppendAscending(d, k, x) ==
    IF DictHas(d, k)
    THEN [i \in 1..Len(d) |->
             IF d[i].k = k /\ x > d[i].v[Len(d[i].v)]
             THEN [k |-> k, v |-> Append(d[i].v, x)] ELSE d[i]]
    ELSE Append(d, [k |-> k, v |-> <<x>>])
DictAppend(d, k, x) ==
    IF DictHas(d, k)
    THEN [i \in 1..Len(d) |->
             IF d[i].k = k THEN [k |-> k, v |-> Append(d[i].v, x)] ELSE d[i]]
    ELSE Append(d, [k |-> k, v |-> <<x>>])

MoreThanOne(e) == Len(e.v) > 1

\* {k: v for k, v in d.items() if len(v) > 1}
KeepAll(d) == d
FilterDict(d) == SelectSeq(d, MoreThanOne)

\* [v for v in d.values() if len(v) > 1]
ValuesAll(d) == [i \in 1..Len(d) |-> d[i].v]
FilterValuesKeepAll(d) == ValuesAll(d)
FilterValues(d) == ValuesAll(SelectSeq(d, MoreThanOne))

RECURSIVE Flatten(_)
Flatten(gs) == IF gs = <<>> THEN <<>> ELSE Head(gs) \o Flatten(Tail(gs))

\* sum(len(g) for g in groups)
SumLenGroups(gs) == Len(gs)
SumLenOffByOne(gs) == Len(Flatten(gs)) + 1
RECURSIVE SumLen(_)
SumLen(gs) == IF gs = <<>> THEN 0 ELSE Len(Head(gs)) + SumLen(Tail(gs))

Range(s) == {s[i] : i \in 1..Len(s)}
Min(a, b) == IF a < b THEN a ELSE b

VARIABLES
    rootOK,       \* the root exists and can be listed
    tree,         \* the non-directory entries under the root, discovery order
    pc,           \* position of the main program
    idx,          \* entries the walk of group_by_size has handled
    size_map,     \* group_by_size: size -> paths
    size_groups,  \* value returned by group_by_size
    total_files,  \* hash_groups: total_files
    done,         \* hash_groups: done
    futures,      \* hash_groups: futures, one job record per submit
    consumed,     \* indices of futures that as_completed has yielded
    hash_map,     \* hash_groups: digest -> paths
    duplicates,   \* value returned by hash_groups
    reports,      \* the progress lines printed, as (done, total) pairs
    raised        \* an exception escaped to the caller

vars == <<rootOK, tree, pc, idx, size_map, size_groups, total_files,
          done, futures, consumed, hash_map, duplicates, reports, raised>>

Paths == 1..Len(tree)

\* Marker of an OSError raised by a call.
OSError == -2

\* os.path.getsize(path): st_size as os.stat reports it (stat follows
\* symlinks), or the OSError it raises.
StatSize(e) == IF e.kind = "special" THEN 0 ELSE Len(e.content)
getsize(p) == IF tree[p].kind = "nostat" THEN OSError ELSE StatSize(tree[p])

\* get_file_size(path): the size, or -1 when getsize raises.
get_file_size_noexcept(p) == getsize(p)
get_file_size_regular(p) ==
    IF getsize(p) = OSError \/ tree[p].kind # "file" THEN -1 ELSE getsize(p)
get_file_size(p) == IF getsize(p) = OSError THEN -1 ELSE getsize(p)

\* The entries `for root, _, files in os.walk(folder)` yields: os.walk
\* swallows the listing error of a root it cannot scan and yields nothing.
WalkListAnyRoot == [i \in 1..Len(tree) |-> i]
WalkList == IF rootOK THEN [i \in 1..Len(tree) |-> i] ELSE <<>>

Init ==
    /\ rootOK \in BOOLEAN
    /\ tree \in Trees
    /\ pc = "walk"
    /\ idx = 0
    /\ size_map = <<>>
    /\ size_groups = <<>>
    /\ total_files = 0
    /\ done = 0
    /\ futures = <<>>
    /\ consumed = {}
    /\ hash_map = <<>>
    /\ duplicates = <<>>
    /\ reports = <<>>
    /\ raised = FALSE

\* ------------------------------------------------------ group_by_size
\* One iteration of the loop over the walked files (lines 26-30).
WalkStep ==
    /\ pc = "walk"
    /\ idx < Len(WalkList)
    /\ LET p == WalkList[idx + 1]
           size == get_file_size(p)
       IN IF size = OSError
          THEN \* an exception leaves group_by_size
               /\ raised' = TRUE
               /\ pc' = "raised"
               /\ UNCHANGED <<idx, size_map>>
          ELSE /\ size_map' = IF size >= 0 THEN DictAppend(size_map, size, p)
                              ELSE size_map
               /\ idx' = idx + 1
               /\ UNCHANGED <<pc, raised>>
    /\ UNCHANGED <<reports, rootOK, tree, size_groups, total_files, done, futures,
                   consumed, hash_map, duplicates>>

\* The loops of lines 25-26 have run over every file os.walk yields.
WalkExhaustedEarly == idx >= 1 \/ Len(WalkList) = 0
WalkExhausted == idx = Len(WalkList)

\* The walk is exhausted: return the buckets of more than one path (line 32).
GroupBySizeReturn ==
    /\ pc = "walk"
    /\ WalkExhausted
    /\ size_groups' = FilterValues(size_map)
    /\ pc' = "hash"
    /\ UNCHANGED <<reports, rootOK, tree, idx, size_map, total_files, done,
                   futures, consumed, hash_map, duplicates, raised>>

\* -------------------------------------------------------- hash_groups
Candidates == Flatten(size_groups)

\* Lines 35-39: the locals and the executor.
HashGroupsBegin ==
    /\ pc = "hash"
    /\ hash_map' = <<>>
    /\ total_files' = SumLen(size_groups)
    /\ done' = 0
    /\ futures' = <<>>
    /\ pc' = IF Candidates = <<>> THEN "collect" ELSE "submit"
    /\ UNCHANGED <<reports, rootOK, tree, idx, size_map, size_groups,
                   consumed, duplicates, raised>>

\* A future: the file of its md5 call, its state, and once finished the
\* digest md5 returned (None for absent) or the exception md5 raised, and
\* whether its md5 call left the file handle open.
NewJob(p) ==
    [file |-> p, st |-> "Submitted", res |-> None, exc |-> FALSE, open |-> FALSE]

\* Lines 41-43: executor.submit(md5, file) for the next candidate.
Submit ==
    /\ pc = "submit"
    /\ Len(futures) < Len(Candidates)
    /\ futures' = Append(futures, NewJob(Candidates[Len(futures) + 1]))
    /\ pc' = IF Len(futures') = Len(Candidates) THEN "collect" ELSE "submit"
    /\ UNCHANGED <<reports, rootOK, tree, idx, size_map, size_groups,
                   total_files, done, consumed, hash_map, duplicates, raised>>

Jobs == 1..Len(futures)
Running == {j \in Jobs : futures[j].st = "Running"}
TerminalSucceededOnly(j) == futures[j].st = "Succeeded"
Terminal(j) == futures[j].st \in {"Succeeded", "Failed"}

\* A worker thread is free to take a job from the executor's queue.
WorkerFreeUnbounded == TRUE
WorkerFree == Cardinality(Running) < PoolSize

\* The executor's work queue is FIFO: the next job is the oldest waiting one.
NextQueuedRetry(j) ==
    /\ futures[j].st \in {"Submitted", "Failed"}
    /\ \A i \in 1..(j - 1) : futures[i].st # "Submitted"
NextQueued(j) ==
    /\ futures[j].st = "Submitted"
    /\ \A i \in 1..(j - 1) : futures[i].st # "Submitted"

\* A worker thread takes the job from the queue and calls md5(file).
WorkerStart(j) ==
    /\ j \in Jobs
    /\ NextQueued(j)
    /\ WorkerFree
    /\ futures' = [futures EXCEPT ![j].st = "Running"]
    /\ UNCHANGED <<reports, rootOK, tree, pc, idx, size_map, size_groups,
                   total_files, done, consumed, hash_map, duplicates, raised>>

\* ---------------------------------------------------------------- md5
\* The I/O calls of md5 on a file are numbered: 0 is open(), k >= 1 is the
\* k-th f.read().  `fail` is the call that raises, NoFail when none does.
NoFail == -1
\* f.read calls md5 makes on a content when none raises (the last returns b"").
ReadsOf(content) == (Len(content) + BlockSize - 1) \div BlockSize + 1
IOFailures(content) == {NoFail} \cup (0..ReadsOf(content))

\* The block the k-th f.read(block_size) returns.
ReadChunk(content, k) ==
    SubSeq(content, (k - 1) * BlockSize + 1, Min(k * BlockSize, Len(content)))

\* The loop of lines 17-18 from the k-th read on, acc the md5 state so far:
\* how the loop is left (by an exception or not), the md5 state, and the
\* file handle, which is open inside the with block.
RECURSIVE ReadLoopPartial(_, _, _, _)
ReadLoopPartial(content, k, acc, fail) ==
    IF fail = k THEN [raisedIn |-> FALSE, acc |-> acc, open |-> TRUE]
    ELSE LET chunk == ReadChunk(content, k)
         IN IF chunk = <<>>
            THEN [raisedIn |-> FALSE, acc |-> acc, open |-> TRUE]
            ELSE ReadLoopPartial(content, k + 1, Md5Update(acc, chunk), fail)
RECURSIVE ReadLoop(_, _, _, _)
ReadLoop(content, k, acc, fail) ==
    IF fail = k THEN [raisedIn |-> TRUE, acc |-> acc, open |-> TRUE]
    ELSE LET chunk == ReadChunk(content, k)
         IN IF chunk = <<>>
            THEN [raisedIn |-> FALSE, acc |-> acc, open |-> TRUE]
            ELSE ReadLoop(content, k + 1, Md5Update(acc, chunk), fail)

\* Leaving `with open(...) as f` (line 16) closes f, on a normal exit and
\* on an exception alike.
WithExitLeakOnError(r) == [r EXCEPT !.open = r.raisedIn]
WithExit(r) == [r EXCEPT !.open = FALSE]

\* The try block of md5 (lines 16-19): open raises and there is no handle,
\* or the loop runs inside the with block.
Md5Try(p, fail) ==
    IF fail = 0 THEN [raisedIn |-> TRUE, acc |-> Md5Init, open |-> FALSE]
    ELSE WithExit(ReadLoop(tree[p].content, 1, Md5Init, fail))

\* md5(filepath): (filepath, hexdigest), or (filepath, None) from the bare
\* except when open or a read raised.  exc: an exception leaves md5.
\* open: the file handle is still open when md5 returns.
md5_noexcept(p, fail) ==
    LET r == Md5Try(p, fail)
    IN [file |-> p,
        hash |-> IF r.raisedIn THEN None ELSE HexDigest(r.acc),
        exc |-> r.raisedIn, open |-> r.open]
md5(p, fail) ==
    LET r == Md5Try(p, fail)
    IN [file |-> p,
        hash |-> IF r.raisedIn THEN None ELSE HexDigest(r.acc),
        exc |-> FALSE, open |-> r.open]

\* md5 returns in the worker and the future finishes: with the digest
\* (Succeeded), or with None or an exception (Failed).
WorkerFinishShared(j) ==
    /\ j \in Jobs
    /\ futures[j].st = "Running"
    /\ \E fail \in IOFailures(tree[futures[j].file].content) :
          LET r == md5(futures[j].file, fail)
          IN /\ futures' = [futures EXCEPT ![j] =
                 [@ EXCEPT !.st = IF r.exc \/ r.hash = None
                                  THEN "Failed" ELSE "Succeeded",
                           !.res = r.hash,
                           !.exc = r.exc,
                           !.open = r.open]]
             /\ hash_map' = IF Truthy(r.hash)
                             THEN DictAppend(hash_map, r.hash, futures[j].file)
                             ELSE hash_map
    /\ UNCHANGED <<reports, rootOK, tree, pc, idx, size_map, size_groups,
                   total_files, done, consumed, duplicates, raised>>
WorkerFinish(j) ==
    /\ j \in Jobs
    /\ futures[j].st = "Running"
    /\ \E fail \in IOFailures(tree[futures[j].file].content) :
          LET r == md5(futures[j].file, fail)
          IN futures' = [futures EXCEPT ![j] =
                 [@ EXCEPT !.st = IF r.exc \/ r.hash = None
                                  THEN "Failed" ELSE "Succeeded",
                           !.res = r.hash,
                           !.exc = r.exc,
                           !.open = r.open]]
    /\ UNCHANGED <<reports, rootOK, tree, pc, idx, size_map, size_groups,
                   total_files, done, consumed, hash_map, duplicates, raised>>

\* The progress line is printed for this value of done (line 47).
ReportsEveryTen(d, total) == d % 10 = 0
Reports(d, total) == d % 10 = 0 \/ d = total

\* as_completed yields a finished future; the loop body runs (lines 46-51).
Consume(j) ==
    /\ pc = "collect"
    /\ j \in Jobs \ consumed
    /\ Terminal(j)
    /\ done' = done + 1
    /\ consumed' = consumed \cup {j}
    /\ LET print == Reports(done', total_files)
           zerodiv == print /\ total_files = 0
       IN /\ reports' = IF print /\ ~zerodiv
                        THEN Append(reports, [done |-> done', total |-> total_files])
                        ELSE reports
          /\ IF zerodiv \/ futures[j].exc
             THEN \* ZeroDivisionError in done / total_files, or
                  \* future.result() raises what md5 raised
                  /\ raised' = TRUE
                  /\ pc' = "raised"
                  /\ UNCHANGED hash_map
             ELSE /\ hash_map' =
                        IF Truthy(futures[j].res)
                        THEN DictAppend(hash_map, futures[j].res, futures[j].file)
                        ELSE hash_map
                  /\ UNCHANGED <<pc, raised>>
    /\ UNCHANGED <<rootOK, tree, idx, size_map, size_groups,
                   total_files, futures, duplicates>>

\* as_completed is exhausted (every future was yielded, so every job has
\* finished) and the executor has shut down (wait=True).
AllCollectedFirst == consumed # {} \/ Jobs = {}
AllCollected == consumed = Jobs /\ \A j \in Jobs : Terminal(j)

\* Line 54: return the buckets of more than one path.
HashGroupsReturnFinalPrint ==
    /\ pc = "collect"
    /\ AllCollected
    /\ IF total_files = 0
       THEN /\ raised' = TRUE
            /\ pc' = "raised"
            /\ UNCHANGED <<reports, duplicates>>
       ELSE /\ reports' = Append(reports, [done |-> done, total |-> total_files])
            /\ duplicates' = FilterDict(hash_map)
            /\ pc' = "done"
            /\ UNCHANGED raised
    /\ UNCHANGED <<rootOK, tree, idx, size_map, size_groups,
                   total_files, done, futures, consumed, hash_map>>
HashGroupsReturn ==
    /\ pc = "collect"
    /\ AllCollected
    /\ duplicates' = FilterDict(hash_map)
    /\ pc' = "done"
    /\ UNCHANGED <<reports, rootOK, tree, idx, size_map, size_groups,
                   total_files, done, futures, consumed, hash_map, raised>>

Next ==
    \/ WalkStep
    \/ GroupBySizeReturn
    \/ HashGroupsBegin
    \/ Submit
    \/ \E j \in 1..NFiles : WorkerStart(j)
    \/ \E j \in 1..NFiles : WorkerFinish(j)
    \/ \E j \in 1..NFiles : Consume(j)
    \/ HashGroupsReturn

Spec == Init /\ [][Next]_vars

\* The main thread and the pool's workers are scheduled whenever they can
\* take a step, and every open and read returns or raises: a step that is
\* possible is eventually taken.
FairSpec == Spec /\ WF_vars(Next)

\* ------------------------------------------------------------- claims
\* p is in some bucket of the dict d.
InBucket(d, p) == \E i \in 1..Len(d) : p \in Range(d[i].v)
\* p is in the bucket of d under the key k.
InBucketAt(d, k, p) == \E i \in 1..Len(d) : d[i].k = k /\ p \in Range(d[i].v)
\* p and q are together in one bucket of d.
SameBucket(d, p, q) ==
    \E i \in 1..Len(d) : p \in Range(d[i].v) /\ q \in Range(d[i].v)
\* p is in some list of the list of lists gs.
InGroup(gs, p) == \E i \in 1..Len(gs) : p \in Range(gs[i])

\* The walk reaches p and its size can be read.
Sized(p) == rootOK /\ getsize(p) # OSError
\* The hashing job of p.
JobOf(p) == {j \in Jobs : futures[j].file = p}
HashFailed(p) == \E j \in JobOf(p) : futures[j].st = "Failed"
HashSucceeded(p) == \E j \in JobOf(p) : futures[j].st = "Succeeded"
SameContent(p, q) == tree[p].content = tree[q].content

\* C1: when hash_groups has returned, any two files with the same content,
\* both sized and neither failing to hash, are together in one bucket of the
\* result, whatever the order of the size buckets and of job completion.
C1_SameContentSameBucket ==
    pc = "done" =>
        \A p \in Paths : \A q \in Paths \ {p} :
            (SameContent(p, q) /\ Sized(p) /\ Sized(q)
                /\ ~HashFailed(p) /\ ~HashFailed(q))
            => SameBucket(duplicates, p, q)

\* C1 witness: two size buckets were hashed, and a bucket of the result
\* lists a pair of equal files in the reverse of their submission order.
C1_Witness ==
    /\ pc = "done"
    /\ Len(size_groups) = 2
    /\ Len(duplicates) = 2
    /\ \E i \in 1..Len(duplicates) :
          /\ duplicates[i].v[1] > duplicates[i].v[2]
          /\ SameContent(duplicates[i].v[1], duplicates[i].v[2])

\* C2: two files of the same size and different content are never together
\* in a bucket of the digest map nor of the result.
C2_DifferentContentDifferentBucket ==
    \A p \in Paths : \A q \in Paths \ {p} :
        (Len(tree[p].content) = Len(tree[q].content) /\ ~SameContent(p, q))
        => /\ ~SameBucket(hash_map, p, q)
           /\ ~SameBucket(duplicates, p, q)

\* C2 witness: two files of one size bucket with different content were both
\* hashed, and the result holds a bucket with one of them.
C2_Witness ==
    /\ pc = "done"
    /\ \E p \in Paths : \E q \in Paths \ {p} :
          /\ Len(tree[p].content) = Len(tree[q].content)
          /\ ~SameContent(p, q)
          /\ HashSucceeded(p) /\ HashSucceeded(q)
          /\ InBucket(duplicates, p)

\* No other entry whose size can be read has the size of p.
SizeUnique(p) ==
    \A q \in Paths \ {p} : getsize(q) = OSError \/ getsize(q) # getsize(p)

\* C3: a file whose size no other file has is in no list group_by_size
\* returns, has no hashing job, and is in no bucket of the digest map or of
\* the result.
C3_UniqueSizeExcluded ==
    \A p \in Paths :
        SizeUnique(p) =>
            /\ ~InGroup(size_groups, p)
            /\ JobOf(p) = {}
            /\ ~InBucket(hash_map, p)
            /\ ~InBucket(duplicates, p)

\* C3 witness: the walk bucketed a file of unique size, and the run ended
\* with duplicates among the other files.
C3_Witness ==
    /\ pc = "done"
    /\ duplicates # <<>>
    /\ \E p \in Paths : SizeUnique(p) /\ InBucket(size_map, p)

\* C4: every list group_by_size returns and every bucket hash_groups
\* returns has at least two paths.
C4_BucketsAtLeastTwo ==
    /\ \A i \in 1..Len(size_groups) : Len(size_groups[i]) >= 2
    /\ \A i \in 1..Len(duplicates) : Len(duplicates[i].v) >= 2

\* C4 witness: a hashing failure left a digest bucket with one path, which
\* was dropped, and a bucket of two paths was returned.
C4_Witness ==
    /\ pc = "done"
    /\ duplicates # <<>>
    /\ Len(size_groups) = 2
    /\ \E i \in 1..Len(hash_map) : Len(hash_map[i].v) = 1
    /\ \E j \in Jobs : futures[j].st = "Failed"

\* C5: the path of a job that ended Failed (absent digest) is in no bucket
\* of the digest map and in no bucket of the result.
C5_FailedNeverInserted ==
    \A j \in Jobs :
        futures[j].st = "Failed" =>
            /\ ~InBucket(hash_map, futures[j].file)
            /\ ~InBucket(duplicates, futures[j].file)

\* C5 witness: a job ended Failed, was consumed, and the run returned a
\* bucket of other files with the same content.
C5_Witness ==
    /\ pc = "done"
    /\ \E j \in Jobs :
          /\ futures[j].st = "Failed"
          /\ \E p \in Paths \ {futures[j].file} :
                SameContent(p, futures[j].file) /\ InBucket(duplicates, p)

\* C6: when a candidate that was sized cannot be read by its hashing job,
\* hash_groups raises nothing, and its result leaves that file out and holds
\* together any two other candidates that were read and share content.
C6_UnreadableCandidateOmitted ==
    (\E j \in Jobs : futures[j].st = "Failed") =>
        /\ ~raised
        /\ pc # "raised"
        /\ pc = "done" =>
              /\ \A j \in Jobs : futures[j].st = "Failed" =>
                    ~InBucket(duplicates, futures[j].file)
              /\ \A p \in Paths : \A q \in Paths \ {p} :
                    (HashSucceeded(p) /\ HashSucceeded(q) /\ SameContent(p, q))
                    => SameBucket(duplicates, p, q)

\* C6 witness: of three candidates with one content one could not be read,
\* and the run returned the other two as a group.
C6_Witness ==
    /\ pc = "done"
    /\ \E j \in Jobs :
          /\ futures[j].st = "Failed"
          /\ Len(duplicates) = 1
          /\ Len(duplicates[1].v) = 2
          /\ \A p \in Range(duplicates[1].v) : SameContent(p, futures[j].file)

\* C7: a file whose size cannot be read is in no size bucket, no error is
\* raised, and once the walk is over every other file is in the bucket of
\* its size.
C7_StatFailureSkipped ==
    \A p \in Paths :
        (rootOK /\ getsize(p) = OSError) =>
            /\ ~InBucket(size_map, p)
            /\ ~raised
            /\ pc # "raised"
            /\ pc # "walk" =>
                  \A q \in Paths :
                      getsize(q) # OSError => InBucketAt(size_map, getsize(q), q)

\* C7 witness: the walk met a file whose size cannot be read and bucketed a
\* file it met afterwards.
C7_Witness ==
    /\ pc = "hash"
    /\ \E p \in Paths : \E q \in Paths :
          /\ getsize(p) = OSError
          /\ q > p
          /\ InBucket(size_map, q)

NotRegular(p) == tree[p].kind \in {"symlink", "special"}

\* C8 as stated: a symlink or a special file is never in a size bucket.
C8_OnlyRegularFiles ==
    \A p \in Paths : NotRegular(p) => ~InBucket(size_map, p)

\* C8 amended: group_by_size buckets every listed entry whose size can be
\* read, whatever its kind: a symlink to a regular file goes under its
\* target's size, a special file under its st_size.
C8_StatableEntriesBucketed ==
    \A p \in 1..idx :
        NotRegular(p) => InBucketAt(size_map, StatSize(tree[p]), p)

\* C8 witness: a symlink was bucketed with a file of its target's size and
\* the run reported the two as duplicates.
C8_Witness ==
    /\ pc = "done"
    /\ \E p \in Paths : \E q \in Paths :
          /\ tree[p].kind = "symlink"
          /\ tree[q].kind = "file"
          /\ SameBucket(duplicates, p, q)

\* C9 as stated: with a root that cannot be traversed the run does not
\* return a result, it ends in an error.
C9_BadRootIsFatal ==
    ~rootOK => pc # "done"

\* C9 amended: with a root that does not exist or cannot be traversed
\* group_by_size returns no bucket, hash_groups submits no job, no error is
\* raised and the result is empty.
C9_BadRootEmptyResult ==
    ~rootOK =>
        /\ ~raised
        /\ pc # "raised"
        /\ size_map = <<>>
        /\ size_groups = <<>>
        /\ futures = <<>>
        /\ duplicates = <<>>

\* C9 witness: the run over an unreadable root that holds files has ended.
C9_Witness ==
    /\ ~rootOK
    /\ pc = "done"
    /\ \E p \in Paths : \E q \in Paths \ {p} :
          SameContent(p, q) /\ tree[p].kind = "file" /\ tree[q].kind = "file"

\* C10: when hash_groups has returned, every candidate was submitted and
\* every submitted job is Succeeded or Failed.
C10_ReturnAfterAllTerminal ==
    pc = "done" =>
        /\ Len(futures) = Len(Candidates)
        /\ \A j \in Jobs : futures[j].st \in {"Succeeded", "Failed"}

\* C10 witness: hash_groups returned after four jobs, some Succeeded and
\* some Failed.
C10_Witness ==
    /\ pc = "done"
    /\ Len(futures) = 4
    /\ \E j \in Jobs : futures[j].st = "Succeeded"
    /\ \E j \in Jobs : futures[j].st = "Failed"

\* C11: a hashing job exists only after group_by_size has walked every
\* file and returned the complete list of size buckets.
C11_WalkBeforeHashing ==
    /\ pc = "walk" => futures = <<>>
    /\ (futures # <<>> \/ pc \in {"hash", "submit", "collect", "done"}) =>
          /\ idx = Len(WalkList)
          /\ size_groups = FilterValues(size_map)
          /\ \A p \in Paths : Sized(p) => InBucket(size_map, p)

\* C11 witness: the first job is submitted, after a walk over four files.
C11_Witness ==
    /\ pc = "submit"
    /\ Len(futures) = 1
    /\ idx = 4
    /\ Len(size_groups) = 2

\* C12: the jobs hash_groups submits are as many as the paths in the size
\* buckets group_by_size returned, which is total_files, and when
\* hash_groups returns the completed count equals the submitted count.
C12_SubmittedEqualsTotal ==
    /\ pc \in {"submit", "collect", "done"} =>
          /\ total_files = Len(Candidates)
          /\ Len(futures) <= total_files
    /\ pc \in {"collect", "done"} => Len(futures) = total_files
    /\ pc = "done" => done = Len(futures) /\ done = total_files

\* C12 witness: hash_groups returned after four jobs from two size buckets.
C12_Witness ==
    /\ pc = "done"
    /\ Len(size_groups) = 2
    /\ Len(futures) = 4
    /\ done = 4

\* The reports that show the completed count equal to the total.
FinalReports == {i \in 1..Len(reports) : reports[i].done = reports[i].total}

EmptyTree == rootOK /\ tree = <<>>

\* C14 as stated: for an empty tree there are no buckets, no jobs, an empty
\* result, and a progress report 0/0.
C14_EmptyTreeReportsZero ==
    (EmptyTree /\ pc = "done") =>
        /\ size_groups = <<>>
        /\ futures = <<>>
        /\ duplicates = <<>>
        /\ \E i \in 1..Len(reports) : reports[i] = [done |-> 0, total |-> 0]

\* C14 amended: for an empty tree group_by_size returns no buckets,
\* hash_groups counts zero files, submits no job, prints no progress report
\* and returns an empty result, without an error.
C14_EmptyTreeNoReport ==
    EmptyTree =>
        /\ size_map = <<>>
        /\ size_groups = <<>>
        /\ total_files = 0
        /\ futures = <<>>
        /\ done = 0
        /\ reports = <<>>
        /\ duplicates = <<>>
        /\ ~raised
        /\ pc # "raised"

\* C14 witness: the run over an empty tree has ended.
C14_Witness ==
    /\ EmptyTree
    /\ pc = "done"
    /\ consumed = {}

\* C15: the jobs in the Running state are never more than the pool has
\* workers, however many jobs were submitted.
C15_RunningAtMostPoolSize ==
    Cardinality(Running) <= PoolSize

\* C15 witness: every worker of the pool runs a job while submitted jobs
\* wait in the queue.
C15_Witness ==
    /\ Cardinality(Running) = PoolSize
    /\ Len(futures) = 4
    /\ Cardinality({j \in Jobs : futures[j].st = "Submitted"}) = 4 - PoolSize
    /\ 4 > PoolSize

\* The I/O calls of md5 on the file p that can raise.
FailurePoints(p) == 0..ReadsOf(tree[p].content)

\* C16: whichever call raises (open or any read, the last one that returns
\* b"" included), md5 returns an absent digest; a digest it returns, and so
\* the digest of every finished job, is the digest of the whole content.
C16_NoPartialDigest ==
    /\ \A p \in Paths : \A fail \in FailurePoints(p) :
          /\ md5(p, fail).hash = None
          /\ md5(p, fail).file = p
    /\ \A p \in Paths : md5(p, NoFail).hash = HexDigest(tree[p].content)
    /\ \A j \in Jobs :
          /\ futures[j].st = "Succeeded" =>
                futures[j].res = HexDigest(tree[futures[j].file].content)
          /\ futures[j].st # "Succeeded" => futures[j].res = None

\* C16 witness: the job of a file of three reads ended Failed (its middle
\* read is among the calls that can raise) next to a job that Succeeded on
\* the same content.
C16_Witness ==
    \E j \in Jobs : \E i \in Jobs :
        /\ futures[j].st = "Failed"
        /\ futures[i].st = "Succeeded"
        /\ SameContent(futures[i].file, futures[j].file)
        /\ ReadsOf(tree[futures[j].file].content) >= 3
        /\ md5(futures[j].file, 2).hash = None

\* C17: under fair scheduling, for every tree and every choice of stat and
\* read failures, the run eventually reaches the state where hash_groups
\* has returned its result.
C17_RunCompletes ==
    <>(pc = "done" /\ ~raised)

\* C17 witness: the run ended with an empty result although files failed to
\* be sized and jobs failed to hash.
C17_Witness ==
    /\ pc = "done"
    /\ duplicates = <<>>
    /\ \E p \in Paths : rootOK /\ getsize(p) = OSError
    /\ Cardinality({j \in Jobs : futures[j].st = "Failed"}) >= 2

\* The moves of one job from state a to state b.
JobMove(a, b) ==
    \/ a = b
    \/ a = "Submitted" /\ b = "Running"
    \/ a = "Running" /\ b \in {"Succeeded", "Failed"}

\* C18: a job starts Submitted and moves Submitted -> Running -> Succeeded
\* or Failed; a finished job never changes again (no retry); the consumer
\* takes one finished result per step, each job's result once, and has
\* taken every job's result when hash_groups returns.
C18_JobStateMachine ==
    /\ [][/\ Len(futures') >= Len(futures)
          /\ \A j \in 1..Len(futures) :
                /\ futures'[j].file = futures[j].file
                /\ JobMove(futures[j].st, futures'[j].st)
                /\ futures[j].st \in {"Succeeded", "Failed"} =>
                      futures'[j] = futures[j]
          /\ \A j \in (Len(futures) + 1)..Len(futures') :
                futures'[j].st = "Submitted"
          /\ consumed \subseteq consumed'
          /\ Cardinality(consumed' \ consumed) <= 1
          /\ done' = done + Cardinality(consumed' \ consumed)
          /\ \A j \in consumed' \ consumed :
                futures[j].st \in {"Succeeded", "Failed"}]_vars
    /\ [](/\ consumed \subseteq Jobs
          /\ done = Cardinality(consumed)
          /\ \A j \in Jobs :
                futures[j].st \in {"Submitted", "Running", "Succeeded", "Failed"}
          /\ pc = "done" => consumed = Jobs)

\* C18 witness: hash_groups returned after three jobs, every result was
\* consumed, and both terminal states occurred.
C18_Witness ==
    /\ pc = "done"
    /\ Len(futures) = 3
    /\ consumed = {1, 2, 3}
    /\ \E j \in Jobs : futures[j].st = "Succeeded"
    /\ \E j \in Jobs : futures[j].st = "Failed"

\* C19: md5 returns with the file handle closed whether it ends normally
\* or a read raises, so a finished job holds no open handle and no handle
\* is open when hash_groups returns.
C19_HandleClosedBeforeResult ==
    /\ \A p \in Paths : \A fail \in IOFailures(tree[p].content) :
          ~md5(p, fail).open
    /\ \A j \in Jobs :
          futures[j].st \in {"Succeeded", "Failed"} => ~futures[j].open
    /\ pc = "done" => \A j \in Jobs : ~futures[j].open

\* C19 witness: hash_groups returned after two jobs on files of at least
\* one byte, one read to the end and one that failed, both handles closed.
C19_Witness ==
    /\ pc = "done"
    /\ Len(futures) = 2
    /\ \E j \in Jobs : \E i \in Jobs :
          /\ futures[j].st = "Failed" /\ ~futures[j].open
          /\ futures[i].st = "Succeeded" /\ ~futures[i].open
          /\ Len(tree[futures[j].file].content) >= 1

\* The bucket of d under the key k, empty when d has no such key.
BucketOf(d, k) ==
    IF DictHas(d, k) THEN (CHOOSE e \in Range(d) : e.k = k).v ELSE <<>>
\* The keys of d.
KeysOf(d) == {d[i].k : i \in 1..Len(d)}

\* C20: a step of a worker job leaves the digest map and the completed
\* count as they are; they change only in a step of the consumer loop that
\* takes one finished job, adds one to the count, and leaves every bucket
\* as it was except the bucket under that job's digest, which stays or
\* gets the job's path appended.
C20_SingleWriterOneBucket ==
    [][/\ futures' # futures => hash_map' = hash_map /\ done' = done
       /\ (hash_map' # hash_map \/ done' # done) =>
             /\ pc = "collect"
             /\ futures' = futures
             /\ \E j \in Jobs \ consumed :
                   /\ consumed' = consumed \cup {j}
                   /\ done' = done + 1
                   /\ \A k \in (KeysOf(hash_map) \cup KeysOf(hash_map'))
                                  \ {futures[j].res} :
                         BucketOf(hash_map', k) = BucketOf(hash_map, k)
                   /\ BucketOf(hash_map', futures[j].res) \in
                         {BucketOf(hash_map, futures[j].res),
                          Append(BucketOf(hash_map, futures[j].res),
                                 futures[j].file)}
                   /\ Len(hash_map') <= Len(hash_map) + 1
                   /\ \A i \in 1..Len(hash_map) : hash_map'[i].k = hash_map[i].k
      ]_vars

\* C20 witness: the consumer has taken a failed job, which changed no
\* bucket, and jobs whose paths went to two buckets, one holding two paths
\* and one holding one.
C20_Witness ==
    /\ pc = "collect"
    /\ done = Cardinality(consumed)
    /\ Len(hash_map) = 2
    /\ \E a \in 1..2 : \E b \in 1..2 :
          Len(hash_map[a].v) = 2 /\ Len(hash_map[b].v) = 1
    /\ \E j \in consumed :
          futures[j].st = "Failed" /\ ~InBucket(hash_map, futures[j].file)

\* The result of hash_groups as a set of sets of paths.
ResultGroups == {Range(duplicates[i].v) : i \in 1..Len(duplicates)}
\* The files whose job produced the digest h.
FilesWithDigest(h) ==
    {futures[j].file : j \in {i \in Jobs : futures[i].st = "Succeeded"
                                          /\ futures[i].res = h}}
\* The groups the outcomes of the jobs determine: for every digest some job
\* produced, the files with that digest, when they are two or more.
OutcomeGroups ==
    {g \in {FilesWithDigest(futures[j].res) :
               j \in {i \in Jobs : futures[i].st = "Succeeded"}} :
        Cardinality(g) >= 2}

\* C21: when hash_groups has returned, its result as a set of sets of paths
\* is the grouping the candidates' hashing outcomes determine, whatever the
\* order in which the jobs finished and were consumed; no path is listed
\* twice and no group appears twice.
C21_ResultIndependentOfOrder ==
    pc = "done" =>
        /\ ResultGroups = OutcomeGroups
        /\ Cardinality(ResultGroups) = Len(duplicates)
        /\ \A i \in 1..Len(duplicates) :
              Cardinality(Range(duplicates[i].v)) = Len(duplicates[i].v)

\* C21 witness: hash_groups returned two groups for four candidates that
\* were consumed against the submission order: the group of the later
\* files comes first and the paths inside the groups are in descending
\* order.
C21_Witness ==
    /\ pc = "done"
    /\ Len(duplicates) = 2
    /\ duplicates[1].v[1] > duplicates[2].v[1]
    /\ \A i \in 1..2 : /\ Len(duplicates[i].v) = 2
                       /\ duplicates[i].v[1] > duplicates[i].v[2]

\* p is a regular file of zero bytes.
ZeroByte(p) == tree[p].kind = "file" /\ tree[p].content = <<>>

\* C22: zero-byte files have the size 0, which is not the failure value,
\* and a digest that is present; two of them that the walk has passed are
\* in the size bucket 0, are in one group group_by_size returns, and, when
\* both are read without error, are in one group of the result of
\* hash_groups.
C22_ZeroByteFilesGrouped ==
    \A p \in Paths : \A q \in Paths \ {p} :
       (rootOK /\ ZeroByte(p) /\ ZeroByte(q)) =>
           /\ get_file_size(p) = 0
           /\ md5(p, NoFail).hash \notin {None, <<>>}
           /\ md5(p, NoFail).hash = md5(q, NoFail).hash
           /\ (idx >= p /\ idx >= q) =>
                 InBucketAt(size_map, 0, p) /\ InBucketAt(size_map, 0, q)
           /\ pc \in {"hash", "submit", "collect", "done"} =>
                 \E i \in 1..Len(size_groups) :
                    p \in Range(size_groups[i]) /\ q \in Range(size_groups[i])
           /\ (pc = "done" /\ HashSucceeded(p) /\ HashSucceeded(q)) =>
                 SameBucket(duplicates, p, q)

\* C22 witness: hash_groups returned a group that holds two zero-byte
\* files, next to a file of one byte.
C22_Witness ==
    /\ pc = "done"
    /\ \E p \in Paths : \E q \in Paths \ {p} :
          /\ ZeroByte(p) /\ ZeroByte(q)
          /\ SameBucket(duplicates, p, q)
    /\ \E r \in Paths : tree[r].kind = "file" /\ Len(tree[r].content) = 1

\* C23: a step that counts a finished job and prints the progress line,
\* which divides done by total_files, is taken only with total_files above
\* zero; every line printed has a total above zero; no step of hash_groups
\* raises; and with total_files = 0 there is no job to consume and no line
\* printed.
C23_NoDivisionByZero ==
    /\ [][/\ (done' # done /\ Reports(done', total_files)) => total_files > 0
          /\ reports' # reports => total_files > 0
          /\ pc \in {"hash", "submit", "collect"} => ~raised'
         ]_vars
    /\ [](\A i \in 1..Len(reports) : reports[i].total > 0)
    /\ []((pc \in {"submit", "collect", "done"} /\ total_files = 0) =>
             /\ futures = <<>>
             /\ done = 0
             /\ reports = <<>>
             /\ ~raised)

\* C23 witness: hash_groups returned for an empty list of groups, the tree
\* holding three files of different sizes, with nothing printed and no
\* error.
C23_Witness ==
    /\ pc = "done"
    /\ rootOK
    /\ Len(tree) = 3
    /\ \A p \in Paths : tree[p].kind = "file"
    /\ size_groups = <<>>
    /\ total_files = 0
    /\ reports = <<>>
    /\ ~raised

====
